---- MODULE Spec2Model ----
(***************************************************************************)
(* The engine object of noa (index.js): construction from options, the     *)
(* fixed-timestep tick(), render(), the block access API and the block     *)
(* picking / targeting pipeline.                                           *)
(*                                                                         *)
(* Numbers.  A JavaScript number is an integer count of 1/Scale units      *)
(* (fixed point), so 1.8 is 180 and Math.floor is a real conversion.       *)
(* Voxel coordinates and block ids are whole numbers and are kept as plain *)
(* integers (the value of Math.floor, not a count of 1/Scale units).       *)
(*                                                                         *)
(* Values.  A JavaScript value is a record [kind, v]: undefined, null,     *)
(* number <<n>>, boolean <<0 or 1>>, array <<elements>>, and the object    *)
(* pick() returns, <<block, position, normal>>.                            *)
(***************************************************************************)
EXTENDS Integers, Sequences, FiniteSets, TLC

VARIABLES
    defaults,            \* the module-level `defaults` object (index.js:24)
    engineId,            \* how many engines have been constructed so far
    tickRate,            \* this._tickRate
    blockTestDistance,   \* this.blockTestDistance
    blocks,              \* World: voxel -> block id
    playerPos,           \* the player entity's position (bottom centre)
    playerHeight,        \* playerEntity.bb.vec[1]
    playerWidth,         \* playerEntity.bb.vec[0]
    playerAutoStep,      \* playerEntity.body.autoStep
    cameraRot,           \* Rendering's camera rotation (index of a direction)
    blockTargetLoc,      \* this._blockTargetLoc
    blockPlacementLoc,   \* this._blockPlacementLoc
    inputState,          \* inputs.state: [dx, dy, fire]
    pointerLock,         \* Container: [has, supports]
    listeners,           \* the 'tick' listeners registered on the emitter
    playerMesh,          \* playerEntity: [mesh, meshOffset]
    handler,             \* the last API call made and its arguments
    calls,               \* the collaborator calls made by that call, in order
    result,              \* what that call returned
    threw                \* whether that call ended by throwing

vars == <<defaults, engineId, tickRate, blockTestDistance, blocks, playerPos,
          playerHeight, playerWidth, playerAutoStep, cameraRot, blockTargetLoc,
          blockPlacementLoc, inputState, pointerLock, listeners, playerMesh,
          handler, calls, result, threw>>

-----------------------------------------------------------------------------
(* Bounds of the model *)

\* engines constructed in one run of the page
MaxEngines == 2
\* block ids 0..MaxBlockID are registered
MaxBlockID == 2
\* the accumulated mouse delta is at most this on each axis
MaxDelta == 1
\* at most this many 'tick' listeners are registered
MaxListeners == 2

-----------------------------------------------------------------------------
(* JavaScript values *)

\* 1/Scale is the resolution of a modelled number
Scale == 100

Undefined == [kind |-> "undefined", v |-> <<>>]
Null == [kind |-> "null", v |-> <<>>]
Num(n) == [kind |-> "number", v |-> <<n>>]
Bool(b) == [kind |-> "boolean", v |-> <<IF b THEN 1 ELSE 0>>]
Arr(t) == [kind |-> "array", v |-> t]
Obj(block, position, normal) ==
    [kind |-> "object", v |-> <<block, position, normal>>]

\* ToBoolean: what `if (v)`, `a || b` and `c ? x : y` test
Truthy(val) ==
    /\ val.kind \notin {"undefined", "null"}
    /\ val /= Num(0)
    /\ val /= Bool(FALSE)

\* a || b
OrElse(a, b) == IF Truthy(a) THEN a ELSE b

\* a === b on the values modelled
StrictEq(a, b) == a = b

\* Math.floor of a fixed-point number, as a whole number
Floor(x) == x \div Scale

\* a * b of two fixed-point numbers
Mul(a, b) == (a * b) \div Scale

\* one call made: its name, its argument values and the value it returned
Returned(fn, args, ret) == [fn |-> fn, args |-> args, ret |-> ret]
Call(fn, args) == Returned(fn, args, Undefined)

-----------------------------------------------------------------------------
(* Registry and World (lib/registry, lib/world) *)

BlockIDs == 0 .. MaxBlockID

\* the voxels whose content the model varies; every other voxel is empty
Voxels == { <<5, 5, 5>>, <<5, 5, 9>>, <<-1, 11, 0>> }

\* block id 0 is air; odd ids are solid blocks, even ids passable ones
BlockSolid(id) == id % 2 = 1

EmptyWorld == [v \in Voxels |-> 0]

getBlockID(w, x, y, z) ==
    IF <<x, y, z>> \in DOMAIN w THEN Num(w[<<x, y, z>>]) ELSE Num(0)

getBlockSolidity(w, x, y, z) ==
    IF <<x, y, z>> \in DOMAIN w THEN Bool(BlockSolid(w[<<x, y, z>>]))
    ELSE Bool(FALSE)

setBlockID(w, id, x, y, z) ==
    IF <<x, y, z>> \in DOMAIN w THEN [w EXCEPT ![<<x, y, z>>] = id] ELSE w

-----------------------------------------------------------------------------
(* The ray traversal primitive (voxel-raycast), for rays along an axis: a    *)
(* direction is a unit vector with one component 1 or -1                   *)

\* the traversal's EPSILON, in 1/Scale units
Eps == 1

Axis(d) == CHOOSE i \in 1 .. 3 : d[i] /= 0

\* the k-th voxel the ray from o along d passes through
StepVoxel(o, d, k) == [i \in 1 .. 3 |-> Floor(o[i]) + k * d[i]]

\* the distance along the ray at which it is inside that voxel: going down
\* an axis the traversal steps EPSILON past the face it crosses
EntryDistance(o, d, k) ==
    IF k = 0 THEN 0
    ELSE LET a == Axis(d)
         IN  IF d[a] > 0
             THEN (Floor(o[a]) + k) * Scale - o[a]
             ELSE o[a] - (Floor(o[a]) - k + 1) * Scale + Eps

\* voxels.getBlock(x, y, z) of the object the traversal was bound to
QueryBlock(w, method, v) ==
    IF method = "getBlockSolidity"
    THEN getBlockSolidity(w, v[1], v[2], v[3])
    ELSE getBlockID(w, v[1], v[2], v[3])

RECURSIVE traceRay_impl(_, _, _, _, _, _)
traceRay_impl(w, method, o, d, maxd, k) ==
    LET t == EntryDistance(o, d, k)
        b == QueryBlock(w, method, StepVoxel(o, d, k))
    IN  IF t > maxd
        THEN [block |-> Num(0),
              pos |-> [i \in 1 .. 3 |-> o[i] + maxd * d[i]],
              norm |-> <<0, 0, 0>>]
        ELSE IF Truthy(b)
        THEN [block |-> b,
              pos |-> [i \in 1 .. 3 |-> o[i] + t * d[i]],
              norm |-> IF k = 0 THEN <<0, 0, 0>>
                       ELSE [i \in 1 .. 3 |-> 0 - d[i]]]
        ELSE traceRay_impl(w, method, o, d, maxd, k + 1)

\* raycast(voxels, origin, direction, max_d, hit_pos, hit_norm): the value
\* returned and the two output buffers
raycast(w, method, o, d, maxd) == traceRay_impl(w, method, o, d, maxd, 0)

-----------------------------------------------------------------------------
(* Block picking (index.js:96-104, 196-228) *)

\* this._traceWorldRay: the traversal bound to World.getBlockID
traceWorldRay(w, o, d, maxd) == raycast(w, "getBlockID", o, d, maxd)

\* (mutant) the collision ray bound to World.getBlockID, like _traceWorldRay
traceWorldRayCollisionAnyBlock(w, o, d, maxd) == traceWorldRay(w, o, d, maxd)

\* this._traceWorldRayCollision: the traversal bound to World.getBlockSolidity
traceWorldRayCollision(w, o, d, maxd) ==
    raycast(w, "getBlockSolidity", o, d, maxd)

\* the directions the camera can face, by rotation
CamVectors == << <<0, 0, -1>>, <<-1, 0, 0>> >>

getCameraVector(rot) == Arr(CamVectors[rot])

\* the eyes are .9 of the height above the position (getPosition() hands out
\* a fresh vector, so adding to it moves nothing)
getPlayerEyePosition(pos, height) ==
    Arr(<<pos[1], pos[2] + Mul(height, 90), pos[3]>>)

\* (mutant) the test for a zero distance left out
pickNeverDisabled(dist) == FALSE

\* dist === 0: picking is disabled
pickDisabled(dist) == StrictEq(dist, Num(0))

\* pick(pos, vec, dist) in a world w with the player's eyes at eye, the camera
\* facing cam and blockTestDistance btd: the value returned and the calls
\* made (the traversal's entry shows the two output buffers as it left them)
pick(w, eye, cam, btd, pos, vec, dist) ==
    IF pickDisabled(dist)
    THEN [ret |-> Null, calls |-> <<>>]
    ELSE LET p == OrElse(pos, eye)
             v == OrElse(vec, cam)
             d == OrElse(dist, btd)
             hit == traceWorldRayCollision(w, p.v, v.v, d.v[1])
         IN  [ret |-> IF Truthy(hit.block)
                      THEN Obj(hit.block, Arr(hit.pos), Arr(hit.norm))
                      ELSE Null,
              calls |-> <<Returned("raycast",
                                   <<p, v, d, Arr(hit.pos), Arr(hit.norm)>>,
                                   hit.block)>>]

-----------------------------------------------------------------------------
(* Block targeting (index.js:231-246) *)

\* result.position.map(Math.floor)
floorPosition(position) == [i \in 1 .. 3 |-> Floor(position[i])]

\* (mutant) the placement one unit behind the face instead of before it
placementLocBehind(loc, norm) == [i \in 1 .. 3 |-> loc[i] - norm[i]]

\* [ loc[0]+norm[0], loc[1]+norm[1], loc[2]+norm[2] ]
placementLoc(loc, norm) == [i \in 1 .. 3 |-> loc[i] + norm[i]]

\* (mutant) a miss clears the cache and leaves the highlight as it was
cacheTargetsNoClear(picked) ==
    IF Truthy(picked)
    THEN LET loc == floorPosition(picked.v[2].v)
             norm == picked.v[3].v
         IN  [target |-> Arr(loc),
              placement |-> Arr(placementLoc(loc, norm)),
              calls |-> <<Call("Rendering.highlightBlockFace",
                               <<Bool(TRUE), Arr(loc), Arr(norm)>>)>>]
    ELSE [target |-> Null, placement |-> Null, calls |-> <<>>]

\* setBlockTargets() on what pick() returned: the two cached locations and
\* the call made to Rendering
cacheTargets(picked) ==
    IF Truthy(picked)
    THEN LET loc == floorPosition(picked.v[2].v)
             norm == picked.v[3].v
         IN  [target |-> Arr(loc),
              placement |-> Arr(placementLoc(loc, norm)),
              calls |-> <<Call("Rendering.highlightBlockFace",
                               <<Bool(TRUE), Arr(loc), Arr(norm)>>)>>]
    ELSE [target |-> Null,
          placement |-> Null,
          calls |-> <<Call("Rendering.highlightBlockFace", <<Bool(FALSE)>>)>>]

\* setBlockTargets(): pick() with no arguments, then the caching
setBlockTargets(w, eye, cam, btd) ==
    LET r == pick(w, eye, cam, btd, Undefined, Undefined, Undefined)
        c == cacheTargets(r.ret)
    IN  [target |-> c.target,
         placement |-> c.placement,
         picked |-> r.ret,
         calls |-> <<Returned("pick", <<>>, r.ret)>> \o r.calls \o c.calls]

-----------------------------------------------------------------------------
(* Block access (index.js:169-185) and Entities.isTerrainBlocked *)

\* x.length
lengthOf(x) == IF x.kind = "array" THEN Num(Len(x.v)) ELSE Undefined

\* (mutant) the three numbers put together with y in the place of z
coordArrayRepeatsY(x, y, z) ==
    IF Truthy(lengthOf(x)) THEN x.v ELSE <<x.v[1], y.v[1], y.v[1]>>

\* var arr = (x.length) ? x : [x,y,z]
coordArray(x, y, z) ==
    IF Truthy(lengthOf(x)) THEN x.v ELSE <<x.v[1], y.v[1], z.v[1]>>

\* the arguments that name voxel v, as one array or as three numbers
ArgForms == {"array", "scalars"}
CoordArgs(form, v) ==
    IF form = "array" THEN <<Arr(v), Undefined, Undefined>>
    ELSE <<Num(v[1]), Num(v[2]), Num(v[3])>>

\* whether the player's bounding box overlaps voxel (x, y, z)
isTerrainBlocked(pos, width, height, x, y, z) ==
    /\ pos[1] - width \div 2 < (x + 1) * Scale
    /\ pos[1] + width \div 2 > x * Scale
    /\ pos[2] < (y + 1) * Scale
    /\ pos[2] + height > y * Scale
    /\ pos[3] - width \div 2 < (z + 1) * Scale
    /\ pos[3] + width \div 2 > z * Scale

\* getBlock(x, y, z): the value returned
getBlock(w, x, y, z) ==
    LET arr == coordArray(x, y, z)
    IN  getBlockID(w, arr[1], arr[2], arr[3])

\* (mutant) setBlock going through the entity check as addBlock does
setBlockGuarded(w, pos, width, height, id, x, y, z) ==
    LET arr == coordArray(x, y, z)
    IN  IF isTerrainBlocked(pos, width, height, arr[1], arr[2], arr[3])
        THEN w
        ELSE setBlockID(w, id, arr[1], arr[2], arr[3])

\* setBlock(id, x, y, z) with the player at pos: the world afterwards
setBlock(w, pos, width, height, id, x, y, z) ==
    LET arr == coordArray(x, y, z)
    IN  setBlockID(w, id, arr[1], arr[2], arr[3])

\* (mutant) addBlock without the entity check
addBlockUnguarded(w, pos, width, height, id, x, y, z) ==
    LET arr == coordArray(x, y, z)
    IN  setBlockID(w, id, arr[1], arr[2], arr[3])

\* addBlock(id, x, y, z) with the player at pos: the world afterwards
addBlock(w, pos, width, height, id, x, y, z) ==
    LET arr == coordArray(x, y, z)
    IN  IF isTerrainBlocked(pos, width, height, arr[1], arr[2], arr[3])
        THEN w
        ELSE setBlockID(w, id, arr[1], arr[2], arr[3])

-----------------------------------------------------------------------------
(* Construction (index.js:24-122) *)

Options(rate, start, autoStep, distance) ==
    [tickRate |-> rate, playerStart |-> start, playerHeight |-> Undefined,
     playerWidth |-> Undefined, playerAutoStep |-> autoStep,
     blockTestDistance |-> distance]

\* var defaults = { ... } as the module is loaded
BuiltinDefaults ==
    [tickRate |-> Num(30 * Scale),
     playerStart |-> Arr(<<0, 10 * Scale, 0>>),
     playerHeight |-> Num(180),
     playerWidth |-> Num(60),
     playerAutoStep |-> Bool(FALSE),
     blockTestDistance |-> Undefined]

\* where Physics can leave the player: the start, and the place whose eye
\* position is (5, 5, 10)
PlayerPositions == { <<0, 10 * Scale, 0>>, <<5 * Scale, 338, 10 * Scale>> }

\* the options objects an engine is constructed with
OptionSets ==
    { Options(Undefined, Undefined, Undefined, Undefined),
      Options(Num(60 * Scale), Undefined, Undefined, Undefined),
      Options(Undefined, Arr(<<5 * Scale, 338, 10 * Scale>>), Bool(TRUE),
              Undefined),
      Options(Undefined, Undefined, Undefined, Num(3 * Scale)) }

\* extend(target, source): target with every defined property of source
\* copied onto it; extend returns target itself
extend(target, source) ==
    [f \in DOMAIN target |->
        IF source[f] /= Undefined THEN source[f] ELSE target[f]]

\* opts = extend(defaults, opts): the object `defaults` after the call
defaultsAfter(defs, opts) == extend(defs, opts)

\* ... and the object `opts` names after it
resolvedOptions(defs, opts) == extend(defs, opts)

\* this.blockTestDistance = opts.blockTestDistance || 10
configuredDistance(opts) == OrElse(opts.blockTestDistance, Num(10 * Scale))

\* (mutant) Controls created before the Physics it binds a body of
ConstructionCallsControlsEarly ==
    << Call("createContainer", <<>>), Call("createInputs", <<>>),
       Call("createRegistry", <<>>), Call("createWorld", <<>>),
       Call("createRendering", <<>>), Call("createControls", <<>>),
       Call("Controls.setCameraAccessor", <<>>),
       Call("createPhysics", <<>>),
       Call("createEntities", <<>>), Call("Entities.add", <<>>),
       Call("Controls.setTarget", <<>>) >>

\* the subsystem calls of the constructor, in order
ConstructionCalls ==
    << Call("createContainer", <<>>), Call("createInputs", <<>>),
       Call("createRegistry", <<>>), Call("createWorld", <<>>),
       Call("createRendering", <<>>), Call("createPhysics", <<>>),
       Call("createControls", <<>>),
       Call("Controls.setCameraAccessor", <<>>),
       Call("createEntities", <<>>), Call("Entities.add", <<>>),
       Call("Controls.setTarget", <<>>) >>

\* the platforms: Container's pointer lock support and state
PointerLocks == [has : BOOLEAN, supports : BOOLEAN]

\* the state new Engine(opts) leaves, n engines having been made before on a
\* page whose `defaults` object is defs
newEngine(defs, opts, n, lock) ==
    LET o == resolvedOptions(defs, opts)
    IN  [defaults |-> defaultsAfter(defs, opts),
         engineId |-> n + 1,
         tickRate |-> o.tickRate,
         blockTestDistance |-> configuredDistance(o),
         blocks |-> EmptyWorld,
         playerPos |-> o.playerStart.v,
         playerHeight |-> o.playerHeight.v[1],
         playerWidth |-> o.playerWidth.v[1],
         playerAutoStep |-> o.playerAutoStep,
         handler |-> Call("Engine", <<opts.tickRate, opts.playerStart,
                                      opts.playerAutoStep,
                                      opts.blockTestDistance>>)]

-----------------------------------------------------------------------------
(* The state machine *)

\* the pointer is captured; the page has no pointer lock
Captured == [has |-> TRUE, supports |-> TRUE]
Unsupported == [has |-> FALSE, supports |-> FALSE]

NoOptions == Options(Undefined, Undefined, Undefined, Undefined)

\* entities.add(..., null, null, ...): the player has no mesh, no mesh offset
NoMesh == [mesh |-> Null, meshOffset |-> Null]

\* the state after the page's first new Engine(opts)
InitWith(optionSets, locks) ==
    \E opts \in optionSets, lock \in locks :
        LET e == newEngine(BuiltinDefaults, opts, 0, lock)
        IN  /\ defaults = e.defaults
            /\ engineId = e.engineId
            /\ tickRate = e.tickRate
            /\ blockTestDistance = e.blockTestDistance
            /\ blocks = e.blocks
            /\ playerPos = e.playerPos
            /\ playerHeight = e.playerHeight
            /\ playerWidth = e.playerWidth
            /\ playerAutoStep = e.playerAutoStep
            /\ cameraRot = 1
            /\ blockTargetLoc = Undefined
            /\ blockPlacementLoc = Undefined
            /\ inputState = [dx |-> 0, dy |-> 0, fire |-> FALSE]
            /\ pointerLock = lock
            /\ listeners = <<>>
            /\ playerMesh = NoMesh
            /\ handler = e.handler
            /\ calls = ConstructionCalls
            /\ result = Undefined
            /\ threw = FALSE

\* new Engine(opts): one more engine on the same page; it becomes the engine
\* the model follows
Construct(opts) ==
    /\ engineId < MaxEngines
    /\ LET e == newEngine(defaults, opts, engineId, pointerLock)
       IN  /\ defaults' = e.defaults
           /\ engineId' = e.engineId
           /\ tickRate' = e.tickRate
           /\ blockTestDistance' = e.blockTestDistance
           /\ blocks' = e.blocks
           /\ playerPos' = e.playerPos
           /\ playerHeight' = e.playerHeight
           /\ playerWidth' = e.playerWidth
           /\ playerAutoStep' = e.playerAutoStep
           /\ handler' = e.handler
    /\ cameraRot' = 1
    /\ blockTargetLoc' = Undefined
    /\ blockPlacementLoc' = Undefined
    /\ inputState' = [dx |-> 0, dy |-> 0, fire |-> FALSE]
    /\ listeners' = <<>>
    /\ playerMesh' = NoMesh
    /\ calls' = ConstructionCalls
    /\ result' = Undefined
    /\ threw' = FALSE
    /\ UNCHANGED pointerLock

\* what one 'tick' listener does when called
ListenerKinds == {"returns", "throws"}

\* this.emit('tick', dt): the listeners are called in order of registration
\* and the first one that throws ends the emit
RECURSIVE emitCalls(_, _, _)
emitCalls(ls, dt, i) ==
    IF i > Len(ls) THEN <<>>
    ELSE <<Call("listener", <<Num(i), dt>>)>>
         \o (IF ls[i] = "throws" THEN <<>> ELSE emitCalls(ls, dt, i + 1))

emitThrows(ls) == \E i \in 1 .. Len(ls) : ls[i] = "throws"

\* (mutant) the step computed as the period of a rate, 1000 / tickRate
tickStepAsPeriod(rate) == Num((1000 * Scale * Scale) \div rate.v[1])

\* var dt = this._tickRate
tickStep(rate) == rate

\* (mutant) the targeting update made after Entities.tick
tickCallsTargetingLast(dt, targeting, ls) ==
    << Call("World.tick", <<dt>>), Call("Rendering.tick", <<dt>>),
       Call("Controls.tickZoom", <<dt>>), Call("Controls.tickPhysics", <<dt>>),
       Call("Physics.tick", <<dt>>), Call("Entities.tick", <<dt>>),
       Call("setBlockTargets", <<>>) >>
    \o targeting
    \o << Call("emit", <<dt>>) >>
    \o emitCalls(ls, dt, 1)

\* the calls of tick() in order, given those of its targeting update
tickCalls(dt, targeting, ls) ==
    << Call("World.tick", <<dt>>), Call("Rendering.tick", <<dt>>),
       Call("Controls.tickZoom", <<dt>>), Call("Controls.tickPhysics", <<dt>>),
       Call("Physics.tick", <<dt>>), Call("setBlockTargets", <<>>) >>
    \o targeting
    \o << Call("Entities.tick", <<dt>>), Call("emit", <<dt>>) >>
    \o emitCalls(ls, dt, 1)

\* (mutant) the targeting update run before the physics step moved the
\* player
TickTargetingBeforePhysics ==
    \E pos \in PlayerPositions :
        LET dt == tickStep(tickRate)
            t == setBlockTargets(blocks,
                                 getPlayerEyePosition(playerPos, playerHeight),
                                 getCameraVector(cameraRot),
                                 blockTestDistance)
        IN  /\ playerPos' = pos
            /\ blockTargetLoc' = t.target
            /\ blockPlacementLoc' = t.placement
            /\ handler' = Call("tick", <<>>)
            /\ calls' = tickCalls(dt, t.calls, listeners)
            /\ result' = Undefined
            /\ threw' = emitThrows(listeners)
            /\ UNCHANGED <<defaults, engineId, tickRate, blockTestDistance,
                           blocks, playerHeight, playerWidth, playerAutoStep,
                           cameraRot, inputState, pointerLock, listeners,
                           playerMesh>>

\* tick(): Physics.tick leaves the player at some position; the targeting
\* update then runs on that position
Tick ==
    \E pos \in PlayerPositions :
        LET dt == tickStep(tickRate)
            t == setBlockTargets(blocks,
                                 getPlayerEyePosition(pos, playerHeight),
                                 getCameraVector(cameraRot),
                                 blockTestDistance)
        IN  /\ playerPos' = pos
            /\ blockTargetLoc' = t.target
            /\ blockPlacementLoc' = t.placement
            /\ handler' = Call("tick", <<>>)
            /\ calls' = tickCalls(dt, t.calls, listeners)
            /\ result' = Undefined
            /\ threw' = emitThrows(listeners)
            /\ UNCHANGED <<defaults, engineId, tickRate, blockTestDistance,
                           blocks, playerHeight, playerWidth, playerAutoStep,
                           cameraRot, inputState, pointerLock, listeners, playerMesh>>

\* the values render() is called with: 0 and 1
FrameParts == {0, Scale}

\* (mutant) the camera update left out when the page has no pointer lock
cameraMovesWhenSupported(lock, input) == lock.has \/ input.fire

\* hasPointerLock() || !supportsPointerLock() || inputs.state.fire
cameraMoves(lock, input) == lock.has \/ ~lock.supports \/ input.fire

\* Controls.tickCamera(): the accumulated mouse delta turns the camera
tickCamera(rot, input) ==
    ((rot - 1 + input.dx + input.dy) % Len(CamVectors)) + 1

\* this.inputs.state.dx = this.inputs.state.dy = 0
clearMouse(input) == [input EXCEPT !.dx = 0, !.dy = 0]

\* (mutant) the mouse delta cleared before the camera update reads it
cameraInputAfterReset(input) == clearMouse(input)

\* the input state Controls.tickCamera() reads: render() clears the mouse
\* delta only after the camera update
cameraInput(input) == input

\* the steps of render(), its camera update made or not; the clearing of the
\* mouse delta is the step "Inputs.clearMouse"
renderCalls(dt, moved) ==
    (IF moved THEN <<Call("Controls.tickCamera", <<>>)>> ELSE <<>>)
    \o << Call("Inputs.clearMouse", <<>>),
          Call("Entities.updateEntitiesForRender", <<dt>>),
          Call("Rendering.render", <<dt>>) >>

\* render(framePart)
Render(framePart) ==
    LET dt == Num(Mul(framePart, tickRate.v[1]))
        moved == cameraMoves(pointerLock, inputState)
    IN  /\ cameraRot' = IF moved
                        THEN tickCamera(cameraRot, cameraInput(inputState))
                        ELSE cameraRot
        /\ inputState' = clearMouse(inputState)
        /\ handler' = Call("render", <<Num(framePart)>>)
        /\ calls' = renderCalls(dt, moved)
        /\ result' = Undefined
        /\ threw' = FALSE
        /\ UNCHANGED <<defaults, engineId, tickRate, blockTestDistance, blocks,
                       playerPos, playerHeight, playerWidth, playerAutoStep,
                       blockTargetLoc, blockPlacementLoc, pointerLock,
                       listeners, playerMesh>>

\* getBlock(pos) or getBlock(x, y, z)
GetBlock(form, v) ==
    LET a == CoordArgs(form, v)
    IN  /\ handler' = Call("getBlock", a)
        /\ calls' = <<Call("World.getBlockID", <<Arr(v)>>)>>
        /\ result' = getBlock(blocks, a[1], a[2], a[3])
        /\ threw' = FALSE
        /\ UNCHANGED <<defaults, engineId, tickRate, blockTestDistance, blocks,
                       playerPos, playerHeight, playerWidth, playerAutoStep,
                       cameraRot, blockTargetLoc, blockPlacementLoc,
                       inputState, pointerLock, listeners, playerMesh>>

\* setBlock(id, pos) or setBlock(id, x, y, z)
SetBlock(id, form, v) ==
    LET a == CoordArgs(form, v)
    IN  /\ blocks' = setBlock(blocks, playerPos, playerWidth, playerHeight,
                              id, a[1], a[2], a[3])
        /\ handler' = Call("setBlock", <<Num(id)>> \o a)
        /\ calls' = <<>>
        /\ result' = Undefined
        /\ threw' = FALSE
        /\ UNCHANGED <<defaults, engineId, tickRate, blockTestDistance,
                       playerPos, playerHeight, playerWidth, playerAutoStep,
                       cameraRot, blockTargetLoc, blockPlacementLoc,
                       inputState, pointerLock, listeners, playerMesh>>

\* addBlock(id, pos) or addBlock(id, x, y, z)
AddBlock(id, form, v) ==
    LET a == CoordArgs(form, v)
    IN  /\ blocks' = addBlock(blocks, playerPos, playerWidth, playerHeight,
                              id, a[1], a[2], a[3])
        /\ handler' = Call("addBlock", <<Num(id)>> \o a)
        /\ calls' = <<Returned("Entities.isTerrainBlocked", <<Arr(v)>>,
                               Bool(isTerrainBlocked(playerPos, playerWidth,
                                        playerHeight, v[1], v[2], v[3])))>>
        /\ result' = Undefined
        /\ threw' = FALSE
        /\ UNCHANGED <<defaults, engineId, tickRate, blockTestDistance,
                       playerPos, playerHeight, playerWidth, playerAutoStep,
                       cameraRot, blockTargetLoc, blockPlacementLoc,
                       inputState, pointerLock, listeners, playerMesh>>

\* the arguments pick() is called with from outside
PickArguments ==
    LET eye == Arr(<<5 * Scale, 5 * Scale, 10 * Scale>>)
        down == Arr(<<0, 0, -1>>)
        up == Arr(<<0, 0, 1>>)
    IN  { <<Undefined, Undefined, Undefined>>,
          <<Undefined, Undefined, Num(0)>>,
          <<eye, down, Num(0)>>,
          <<eye, down, Undefined>>,
          <<eye, down, Num(3 * Scale)>>,
          <<eye, down, Num(0 - Scale)>>,
          <<eye, up, Num(10 * Scale)>>,
          <<Arr(<<5 * Scale, 5 * Scale, 950>>), down, Num(0)>>,
          <<Arr(<<5 * Scale, 5 * Scale, 950>>), down, Num(10 * Scale)>> }

\* pick(pos, vec, dist)
Pick(pos, vec, dist) ==
    LET r == pick(blocks, getPlayerEyePosition(playerPos, playerHeight),
                  getCameraVector(cameraRot), blockTestDistance,
                  pos, vec, dist)
    IN  /\ handler' = Call("pick", <<pos, vec, dist>>)
        /\ calls' = r.calls
        /\ result' = r.ret
        /\ threw' = FALSE
        /\ UNCHANGED <<defaults, engineId, tickRate, blockTestDistance, blocks,
                       playerPos, playerHeight, playerWidth, playerAutoStep,
                       cameraRot, blockTargetLoc, blockPlacementLoc,
                       inputState, pointerLock, listeners, playerMesh>>

\* (mutant) the target recomputed on demand when it is read
GetTargetBlockOnDemand ==
    LET t == setBlockTargets(blocks,
                             getPlayerEyePosition(playerPos, playerHeight),
                             getCameraVector(cameraRot), blockTestDistance)
    IN  /\ blockTargetLoc' = t.target
        /\ blockPlacementLoc' = t.placement
        /\ handler' = Call("getTargetBlock", <<>>)
        /\ calls' = <<>>
        /\ result' = t.target
        /\ threw' = FALSE
        /\ UNCHANGED <<defaults, engineId, tickRate, blockTestDistance,
                       blocks, playerPos, playerHeight, playerWidth,
                       playerAutoStep, cameraRot, inputState, pointerLock,
                       listeners, playerMesh>>

\* getTargetBlock()
GetTargetBlock ==
    /\ handler' = Call("getTargetBlock", <<>>)
    /\ calls' = <<>>
    /\ result' = blockTargetLoc
    /\ threw' = FALSE
    /\ UNCHANGED <<defaults, engineId, tickRate, blockTestDistance, blocks,
                   playerPos, playerHeight, playerWidth, playerAutoStep,
                   cameraRot, blockTargetLoc, blockPlacementLoc,
                   inputState, pointerLock, listeners, playerMesh>>

\* getTargetBlockAdjacent()
GetTargetBlockAdjacent ==
    /\ handler' = Call("getTargetBlockAdjacent", <<>>)
    /\ calls' = <<>>
    /\ result' = blockPlacementLoc
    /\ threw' = FALSE
    /\ UNCHANGED <<defaults, engineId, tickRate, blockTestDistance, blocks,
                   playerPos, playerHeight, playerWidth, playerAutoStep,
                   cameraRot, blockTargetLoc, blockPlacementLoc,
                   inputState, pointerLock, listeners, playerMesh>>

\* getPlayerPosition()
GetPlayerPosition ==
    /\ handler' = Call("getPlayerPosition", <<>>)
    /\ calls' = <<Returned("playerEntity.getPosition", <<>>, Arr(playerPos))>>
    /\ result' = Arr(playerPos)
    /\ threw' = FALSE
    /\ UNCHANGED <<defaults, engineId, tickRate, blockTestDistance, blocks,
                   playerPos, playerHeight, playerWidth, playerAutoStep,
                   cameraRot, blockTargetLoc, blockPlacementLoc,
                   inputState, pointerLock, listeners, playerMesh>>

\* getPlayerEyePosition()
GetPlayerEyePosition ==
    /\ handler' = Call("getPlayerEyePosition", <<>>)
    /\ calls' = <<Returned("playerEntity.getPosition", <<>>, Arr(playerPos))>>
    /\ result' = Arr(getPlayerEyePosition(playerPos, playerHeight))
    /\ threw' = FALSE
    /\ UNCHANGED <<defaults, engineId, tickRate, blockTestDistance, blocks,
                   playerPos, playerHeight, playerWidth, playerAutoStep,
                   cameraRot, blockTargetLoc, blockPlacementLoc,
                   inputState, pointerLock, listeners, playerMesh>>

\* the meshes and mesh offsets setPlayerMesh() is called with
Meshes == {Num(1)}
MeshOffsets == {Undefined, Arr(<<0, 50, 0>>)}

\* setPlayerMesh(mesh, meshOffset)
SetPlayerMesh(mesh, meshOffset) ==
    /\ playerMesh' = [mesh |-> mesh, meshOffset |-> meshOffset]
    /\ handler' = Call("setPlayerMesh", <<mesh, meshOffset>>)
    /\ calls' = <<>>
    /\ result' = Undefined
    /\ threw' = FALSE
    /\ UNCHANGED <<defaults, engineId, tickRate, blockTestDistance, blocks,
                   playerPos, playerHeight, playerWidth, playerAutoStep,
                   cameraRot, blockTargetLoc, blockPlacementLoc,
                   inputState, pointerLock, listeners>>

\* on('tick', listener), which Engine inherits from EventEmitter: one more
\* listener, after those already registered
On(kind) ==
    /\ Len(listeners) < MaxListeners
    /\ listeners' = Append(listeners, kind)
    /\ handler' = Call("on", <<>>)
    /\ calls' = <<>>
    /\ result' = Undefined
    /\ threw' = FALSE
    /\ UNCHANGED <<defaults, engineId, tickRate, blockTestDistance, blocks,
                   playerPos, playerHeight, playerWidth, playerAutoStep,
                   cameraRot, blockTargetLoc, blockPlacementLoc,
                   inputState, pointerLock, playerMesh>>

\* the mouse moves: Inputs adds the motion to its accumulated delta
MouseMove(mx, my) ==
    /\ inputState.dx + mx <= MaxDelta
    /\ inputState.dy + my <= MaxDelta
    /\ inputState' = [inputState EXCEPT !.dx = @ + mx, !.dy = @ + my]
    /\ UNCHANGED <<defaults, engineId, tickRate, blockTestDistance, blocks,
                   playerPos, playerHeight, playerWidth, playerAutoStep,
                   cameraRot, blockTargetLoc, blockPlacementLoc, pointerLock,
                   listeners, playerMesh, handler, calls, result,
                   threw>>

\* the fire button goes down or up
SetFire(down) ==
    /\ inputState.fire /= down
    /\ inputState' = [inputState EXCEPT !.fire = down]
    /\ UNCHANGED <<defaults, engineId, tickRate, blockTestDistance, blocks,
                   playerPos, playerHeight, playerWidth, playerAutoStep,
                   cameraRot, blockTargetLoc, blockPlacementLoc, pointerLock,
                   listeners, playerMesh, handler, calls, result,
                   threw>>

\* the page gains or loses the pointer lock
SetPointerLock(has) ==
    /\ pointerLock.has /= has
    /\ pointerLock' = [pointerLock EXCEPT !.has = has]
    /\ UNCHANGED <<defaults, engineId, tickRate, blockTestDistance, blocks,
                   playerPos, playerHeight, playerWidth, playerAutoStep,
                   cameraRot, blockTargetLoc, blockPlacementLoc, inputState,
                   listeners, playerMesh, handler, calls, result,
                   threw>>

\* the game running: ticks, frames, the mouse turning the camera, blocks
\* read and written, the targets read
Next ==
    \/ Tick
    \/ \E framePart \in FrameParts : Render(framePart)
    \/ MouseMove(1, 0)
    \/ \E v \in Voxels : GetBlock("array", v)
    \/ \E id \in BlockIDs, v \in Voxels : SetBlock(id, "array", v)
    \/ \E id \in BlockIDs, v \in Voxels : AddBlock(id, "array", v)
    \/ GetTargetBlock
    \/ GetTargetBlockAdjacent

Init == InitWith({NoOptions}, {Captured})

Spec == Init /\ [][Next]_vars

\* picking from outside the tick, in a world that is being edited
NextPick ==
    \/ Tick
    \/ \E id \in BlockIDs, v \in Voxels : SetBlock(id, "array", v)
    \/ \E a \in PickArguments : Pick(a[1], a[2], a[3])

InitPick == InitWith(OptionSets, {Captured})

SpecPick == InitPick /\ [][NextPick]_vars

\* engines constructed one after another on one page, each ticked and drawn
NextConfig ==
    \/ \E opts \in OptionSets : Construct(opts)
    \/ Tick
    \/ \E framePart \in FrameParts : Render(framePart)

InitConfig == InitWith(OptionSets, {Captured})

SpecConfig == InitConfig /\ [][NextConfig]_vars

\* blocks read and written with the position given either way, the player
\* moved by ticks
NextForms ==
    \/ Tick
    \/ \E form \in ArgForms, v \in Voxels : GetBlock(form, v)
    \/ \E id \in BlockIDs, form \in ArgForms, v \in Voxels :
          SetBlock(id, form, v)
    \/ \E id \in BlockIDs, form \in ArgForms, v \in Voxels :
          AddBlock(id, form, v)

InitForms == InitWith({NoOptions}, {Captured})

SpecForms == InitForms /\ [][NextForms]_vars

\* the whole API used between ticks: frames, blocks read and written, picks,
\* the targets and the player read, the player's mesh set
NextApi ==
    \/ Tick
    \/ \E framePart \in FrameParts : Render(framePart)
    \/ \E v \in Voxels : GetBlock("array", v)
    \/ \E id \in BlockIDs, v \in Voxels : SetBlock(id, "array", v)
    \/ \E id \in BlockIDs, v \in Voxels : AddBlock(id, "array", v)
    \/ \E a \in PickArguments : Pick(a[1], a[2], a[3])
    \/ GetTargetBlock
    \/ GetTargetBlockAdjacent
    \/ GetPlayerPosition
    \/ GetPlayerEyePosition
    \/ \E mesh \in Meshes, meshOffset \in MeshOffsets :
          SetPlayerMesh(mesh, meshOffset)

InitApi == InitWith({NoOptions}, {Captured})

SpecApi == InitApi /\ [][NextApi]_vars

\* the block-test distances an engine is configured with: none, 0 and 3
DistanceOptionSets ==
    { Options(Undefined, Undefined, Undefined, Undefined),
      Options(Undefined, Undefined, Undefined, Num(0)),
      Options(Undefined, Undefined, Undefined, Num(3 * Scale)) }

\* engines of each configured distance ticked and picked from, in a world
\* that is being edited
NextDistance ==
    \/ Tick
    \/ \E id \in BlockIDs, v \in Voxels : SetBlock(id, "array", v)
    \/ \E a \in PickArguments : Pick(a[1], a[2], a[3])

InitDistance == InitWith(DistanceOptionSets, {Captured})

SpecDistance == InitDistance /\ [][NextDistance]_vars

\* the game loop with 'tick' listeners registered as it runs, some of which
\* throw
NextListeners ==
    \/ \E kind \in ListenerKinds : On(kind)
    \/ Tick
    \/ \E framePart \in FrameParts : Render(framePart)
    \/ MouseMove(1, 0)

InitListeners == InitWith({NoOptions}, {Captured})

SpecListeners == InitListeners /\ [][NextListeners]_vars

\* frames drawn while the mouse moves, the fire button and the pointer lock
\* change, on every kind of page; ticks in between or not
NextRender ==
    \/ Tick
    \/ \E framePart \in FrameParts : Render(framePart)
    \/ MouseMove(1, 0)
    \/ MouseMove(0, 1)
    \/ \E down \in BOOLEAN : SetFire(down)
    \/ \E has \in BOOLEAN : SetPointerLock(has)

InitRender == InitWith({NoOptions}, PointerLocks)

SpecRender == InitRender /\ [][NextRender]_vars

-----------------------------------------------------------------------------
(* What the claims are stated with *)

\* the last call made was tick()
Ticked == handler.fn = "tick"

\* the entries of the call record that carry the name fn
CallsOf(fn) == SelectSeq(calls, LAMBDA c : c.fn = fn)

\* the steps of a tick, in the order the specification gives them
TickSteps ==
    << "World.tick", "Rendering.tick", "Controls.tickZoom",
       "Controls.tickPhysics", "Physics.tick", "setBlockTargets",
       "Entities.tick", "emit" >>

IsTickStep(c) == \E i \in 1 .. Len(TickSteps) : TickSteps[i] = c.fn

\* the steps of the last call, by name, in the order they were made
StepsMade ==
    LET made == SelectSeq(calls, IsTickStep)
    IN  [i \in 1 .. Len(made) |-> made[i].fn]

\* what the targeting update's pick() returned in the last tick
TickPicked == CallsOf("pick")[1].ret

\* the calls to Rendering.highlightBlockFace of the last call
Highlights == CallsOf("Rendering.highlightBlockFace")

\* t is the component-wise floor of position p
IsFloorOf(t, p) ==
    \A i \in 1 .. 3 : t[i] * Scale <= p[i] /\ p[i] < (t[i] + 1) * Scale

-----------------------------------------------------------------------------
(* C1: every tick() makes, once each and in this order, World.tick,        *)
(* Rendering.tick, Controls.tickZoom, Controls.tickPhysics, Physics.tick,  *)
(* the targeting update, Entities.tick and the 'tick' notification,        *)
(* whatever ticks and frames came before it.                               *)
C1_TickOrder == Ticked => StepsMade = TickSteps

\* a tick made after a frame turned the camera, with a target found
C1_Witness == Ticked /\ cameraRot = 2 /\ Truthy(blockTargetLoc)

(* C2: the step handed to every subsystem tick and carried by the 'tick'   *)
(* event is this._tickRate, which is set by construction and by nothing    *)
(* else, frames and ticks included.                                        *)
C2_FixedStep ==
    [][ /\ handler'.fn = "tick" =>
             \A i \in 1 .. Len(calls') :
                 calls'[i].fn \in { "World.tick", "Rendering.tick",
                                    "Controls.tickZoom",
                                    "Controls.tickPhysics", "Physics.tick",
                                    "Entities.tick", "emit" }
                 => calls'[i].args = <<tickRate>>
        /\ engineId' = engineId => tickRate' = tickRate
        /\ handler'.fn = "Engine" /\ handler'.args[1] /= Undefined
             => tickRate' = handler'.args[1] ]_vars

\* a tick of a second engine that was given its own tick rate
C2_Witness ==
    Ticked /\ engineId = 2 /\ tickRate = Num(60 * Scale)
    /\ calls[1].args = <<Num(60 * Scale)>>

(* C3: in every state, the one right after construction included, the      *)
(* cached target and the cached placement location are both null or both   *)
(* triples of whole numbers.                                               *)
C3_TargetsNullOrTriples ==
    \/ blockTargetLoc = Null /\ blockPlacementLoc = Null
    \/ /\ blockTargetLoc.kind = "array" /\ Len(blockTargetLoc.v) = 3
       /\ blockPlacementLoc.kind = "array" /\ Len(blockPlacementLoc.v) = 3

(* C4: when the targeting update of a tick gets a hit, the cached target   *)
(* is the floor of the hit position, the cached placement is the target    *)
(* plus the hit normal, and highlightBlockFace is called once with true,   *)
(* that target and that normal; a solid block at (5,5,5) seen from         *)
(* (5,5,10) along (0,0,-1) gives normal (0,0,1) and placement (5,5,6).     *)
C4_HitCached ==
    /\ Ticked /\ Truthy(TickPicked) =>
         LET p == TickPicked.v[2].v
             n == TickPicked.v[3].v
         IN  /\ blockTargetLoc.kind = "array"
             /\ IsFloorOf(blockTargetLoc.v, p)
             /\ blockPlacementLoc =
                  Arr(<<blockTargetLoc.v[1] + n[1], blockTargetLoc.v[2] + n[2],
                        blockTargetLoc.v[3] + n[3]>>)
             /\ Len(Highlights) = 1
             /\ Highlights[1].args = <<Bool(TRUE), blockTargetLoc, Arr(n)>>
    /\ ( /\ Ticked
         /\ getPlayerEyePosition(playerPos, playerHeight)
              = Arr(<<5 * Scale, 5 * Scale, 10 * Scale>>)
         /\ CamVectors[cameraRot] = <<0, 0, -1>>
         /\ blockTestDistance = Num(10 * Scale)
         /\ BlockSolid(blocks[<<5, 5, 5>>])
         /\ ~BlockSolid(blocks[<<5, 5, 9>>]) )
       => /\ blockTargetLoc = Arr(<<5, 5, 5>>)
          /\ blockPlacementLoc = Arr(<<5, 5, 6>>)
          /\ Highlights[1].args[3] = Arr(<<0, 0, 1>>)

\* the tick of the example: the block at (5,5,5) targeted from (5,5,10)
C4_Witness ==
    /\ Ticked /\ Truthy(TickPicked)
    /\ playerPos = <<5 * Scale, 338, 10 * Scale>>
    /\ cameraRot = 1
    /\ BlockSolid(blocks[<<5, 5, 5>>])
    /\ blocks[<<5, 5, 9>>] = 0
    /\ blockPlacementLoc = Arr(<<5, 5, 6>>)

(* C5: when the targeting update of a tick gets a miss, both cached        *)
(* locations are null after the tick and highlightBlockFace was called     *)
(* with false in it.                                                       *)
C5_MissCleared ==
    Ticked /\ TickPicked = Null =>
        /\ blockTargetLoc = Null
        /\ blockPlacementLoc = Null
        /\ Len(Highlights) = 1
        /\ Highlights[1].args = <<Bool(FALSE)>>

\* a tick that missed although the world holds a solid block
C5_Witness ==
    /\ Ticked /\ TickPicked = Null
    /\ BlockSolid(blocks[<<5, 5, 5>>])
    /\ blockTargetLoc = Null

-----------------------------------------------------------------------------
(* pick() called from outside *)

Picked == handler.fn = "pick"

\* the origin, direction and distance the last pick() worked with
PickOrigin ==
    IF handler.args[1] = Undefined
    THEN getPlayerEyePosition(playerPos, playerHeight).v
    ELSE handler.args[1].v

PickDirection ==
    IF handler.args[2] = Undefined THEN CamVectors[cameraRot]
    ELSE handler.args[2].v

PickDistance ==
    IF handler.args[3] = Undefined THEN blockTestDistance.v[1]
    ELSE handler.args[3].v[1]

\* some point of the ray from o along d, at most maxd from o, is in voxel v
OnRay(v, o, d, maxd) ==
    \E t \in 0 .. maxd :
        \A i \in 1 .. 3 :
            /\ v[i] * Scale <= o[i] + t * d[i]
            /\ o[i] + t * d[i] < (v[i] + 1) * Scale

\* a solid voxel of world w lies on that ray
SolidOnRay(w, o, d, maxd) ==
    \E v \in DOMAIN w : BlockSolid(w[v]) /\ OnRay(v, o, d, maxd)

(* C6: pick(origin, direction, 0) returns null without running the ray     *)
(* traversal, whatever the origin, the direction and the world, also with  *)
(* a solid block at the origin.                                            *)
C6_ZeroDistance ==
    Picked /\ handler.args[3] = Num(0) =>
        result = Null /\ CallsOf("raycast") = <<>>

\* pick(.., .., 0) from inside a solid block
C6_Witness ==
    /\ Picked /\ handler.args[3] = Num(0)
    /\ handler.args[1] = Arr(<<5 * Scale, 5 * Scale, 950>>)
    /\ BlockSolid(blocks[<<5, 5, 9>>])

(* C7: with a distance other than 0, pick() returns null exactly when no   *)
(* solid voxel lies on the ray within the distance; a voxel that is not    *)
(* air and not solid neither gives a hit nor hides a solid voxel behind    *)
(* it.                                                                     *)
C7_NullIffNoSolid ==
    Picked /\ handler.args[3] /= Num(0) =>
        (result = Null
           <=> ~SolidOnRay(blocks, PickOrigin, PickDirection, PickDistance))

\* a hit on the solid block at (5,5,5) through a passable block at (5,5,9)
C7_Witness ==
    /\ Picked /\ handler.args[3] /= Num(0)
    /\ blocks[<<5, 5, 9>>] /= 0 /\ ~BlockSolid(blocks[<<5, 5, 9>>])
    /\ BlockSolid(blocks[<<5, 5, 5>>])
    /\ result /= Null
    /\ floorPosition(result.v[2].v) = <<5, 5, 5>>

(* C8: when pick() hits, the block of the result is the block id of the    *)
(* voxel hit, what World.getBlockID returns for it, and position and       *)
(* normal are those the traversal reported.                                *)
C8_HitBlockID ==
    Picked /\ result /= Null =>
        LET hit == floorPosition(result.v[2].v)
            ray == CallsOf("raycast")[1]
        IN  /\ result.v[1] = getBlockID(blocks, hit[1], hit[2], hit[3])
            /\ result.v[2] = ray.args[4]
            /\ result.v[3] = ray.args[5]

-----------------------------------------------------------------------------
(* addBlock() and setBlock() *)

\* the block id and the voxel the call that ends this step was made with
WrittenID == handler'.args[1].v[1]
WrittenVoxel == coordArray(handler'.args[2], handler'.args[3], handler'.args[4])

(* C9: addBlock(id, pos) at a voxel Entities.isTerrainBlocked reports as   *)
(* blocked leaves the world as it was and throws nothing; at any other     *)
(* voxel it leaves the world as setBlock(id, pos) would.                   *)
C9_AddBlock ==
    [][ handler'.fn = "addBlock" =>
          LET blocked ==
                  CallsOf("Entities.isTerrainBlocked")'[1].ret = Bool(TRUE)
          IN  /\ ~threw'
              /\ blocked => blocks' = blocks
              /\ ~blocked =>
                   blocks' = setBlock(blocks, playerPos, playerWidth,
                                      playerHeight, WrittenID,
                                      handler'.args[2], handler'.args[3],
                                      handler'.args[4]) ]_vars

\* addBlock of a solid block at the empty voxel the player stands in
C9_Witness ==
    /\ handler.fn = "addBlock"
    /\ handler.args = <<Num(1), Arr(<<5, 5, 9>>), Undefined, Undefined>>
    /\ CallsOf("Entities.isTerrainBlocked")[1].ret = Bool(TRUE)
    /\ blocks[<<5, 5, 9>>] = 0

(* C10: setBlock(id, pos) writes id at pos, blocked by an entity or not    *)
(* and without asking Entities.isTerrainBlocked, and changes no other      *)
(* voxel; getBlock(pos) then returns id.                                   *)
C10_SetBlock ==
    [][ handler'.fn = "setBlock" =>
          /\ blocks' = [blocks EXCEPT ![WrittenVoxel] = WrittenID]
          /\ getBlock(blocks', Arr(WrittenVoxel), Undefined, Undefined)
               = Num(WrittenID)
          /\ CallsOf("Entities.isTerrainBlocked")' = <<>> ]_vars

\* setBlock of a solid block at the voxel the player stands in
C10_Witness ==
    /\ handler.fn = "setBlock"
    /\ handler.args = <<Num(1), Arr(<<5, 5, 9>>), Undefined, Undefined>>
    /\ isTerrainBlocked(playerPos, playerWidth, playerHeight, 5, 5, 9)
    /\ blocks[<<5, 5, 9>>] = 1

-----------------------------------------------------------------------------
(* C11: for every position, with coordinates that are 0 or negative among  *)
(* them, getBlock([x,y,z]) equals getBlock(x,y,z), and setBlock and        *)
(* addBlock leave the same world whichever way the position is given.      *)
C11_FormsAgree ==
    /\ \A v \in Voxels :
         LET a == CoordArgs("array", v)
             n == CoordArgs("scalars", v)
         IN  /\ getBlock(blocks, a[1], a[2], a[3])
                  = getBlock(blocks, n[1], n[2], n[3])
             /\ \A id \in BlockIDs :
                  /\ setBlock(blocks, playerPos, playerWidth, playerHeight,
                              id, a[1], a[2], a[3])
                       = setBlock(blocks, playerPos, playerWidth, playerHeight,
                                  id, n[1], n[2], n[3])
                  /\ addBlock(blocks, playerPos, playerWidth, playerHeight,
                              id, a[1], a[2], a[3])
                       = addBlock(blocks, playerPos, playerWidth, playerHeight,
                                  id, n[1], n[2], n[3])
    /\ handler.fn = "getBlock" =>
         \E v \in Voxels :
             /\ handler.args \in {CoordArgs("array", v), CoordArgs("scalars", v)}
             /\ result = Num(blocks[v])
    /\ handler.fn = "setBlock" =>
         \E v \in Voxels :
             /\ handler.args \in
                  { <<handler.args[1]>> \o CoordArgs("array", v),
                    <<handler.args[1]>> \o CoordArgs("scalars", v) }
             /\ Num(blocks[v]) = handler.args[1]

\* setBlock(2, -1, 11, 0): three numbers, one negative and one 0
C11_Witness ==
    /\ handler.fn = "setBlock"
    /\ handler.args = <<Num(2), Num(-1), Num(11), Num(0)>>
    /\ blocks[<<-1, 11, 0>>] = 2

-----------------------------------------------------------------------------
(* render() *)

\* this step is a call of render(): it alone clears the mouse delta and
\* leaves the pointer lock and the fire button as they are
RenderStep ==
    /\ handler'.fn = "render"
    /\ inputState' = clearMouse(inputState)
    /\ pointerLock' = pointerLock

\* the names of the steps the call that ends this step made, in order
NamesMade == [i \in 1 .. Len(calls') |-> calls'[i].fn]

\* the condition under which the specification lets the camera turn
CameraCondition ==
    pointerLock.has \/ ~pointerLock.supports \/ inputState.fire

(* C12: in every render() Controls.tickCamera is called exactly when the   *)
(* pointer is captured, or pointer capture is unsupported, or fire is      *)
(* held, in each of the eight combinations of the three; render(0) and     *)
(* render(1) run to their end with no tick() before or between them.       *)
C12_CameraCondition ==
    [][ RenderStep =>
          /\ Len(SelectSeq(calls', LAMBDA c : c.fn = "Controls.tickCamera"))
               = (IF CameraCondition THEN 1 ELSE 0)
          /\ ~CameraCondition => cameraRot' = cameraRot
          /\ calls'[Len(calls')].fn = "Rendering.render"
          /\ ~threw' ]_vars

\* render(1) of an engine never ticked, the pointer free and fire up: the
\* camera is left alone
C12_Witness ==
    /\ handler = Call("render", <<Num(Scale)>>)
    /\ blockTargetLoc = Undefined
    /\ pointerLock = [has |-> FALSE, supports |-> TRUE]
    /\ ~inputState.fire
    /\ CallsOf("Controls.tickCamera") = <<>>
    /\ CallsOf("Rendering.render") /= <<>>

(* C13: every render() makes, in order, the camera update if any, the      *)
(* reset of the mouse delta, Entities.updateEntitiesForRender and          *)
(* Rendering.render; the camera update sees the delta accumulated since    *)
(* the last frame, the delta is zero when render() returns, and a delta    *)
(* is applied to the camera in one frame at most.                          *)
C13_RenderOrder ==
    [][ RenderStep =>
          /\ NamesMade =
               (IF CameraCondition THEN <<"Controls.tickCamera">> ELSE <<>>)
               \o << "Inputs.clearMouse", "Entities.updateEntitiesForRender",
                     "Rendering.render" >>
          /\ inputState'.dx = 0 /\ inputState'.dy = 0
          /\ CameraCondition =>
               cameraRot' = tickCamera(cameraRot, inputState)
          /\ inputState.dx = 0 /\ inputState.dy = 0 => cameraRot' = cameraRot
        ]_vars

\* a frame that turned the camera by the mouse delta and left the delta zero
C13_Witness ==
    /\ handler.fn = "render"
    /\ CallsOf("Controls.tickCamera") /= <<>>
    /\ cameraRot = 2
    /\ inputState.dx = 0 /\ inputState.dy = 0

-----------------------------------------------------------------------------
(* The cached targets between ticks *)

(* C14: the cached targets change only in tick()'s targeting update:       *)
(* render, getBlock, setBlock, addBlock, pick with any arguments,          *)
(* getTargetBlock, getTargetBlockAdjacent, getPlayerPosition,              *)
(* getPlayerEyePosition and setPlayerMesh leave them as they are, and the  *)
(* two accessors return the cached values whatever the world is by then.   *)
C14_CacheOnlyInTick ==
    [][ /\ handler'.fn /= "tick" =>
             /\ blockTargetLoc' = blockTargetLoc
             /\ blockPlacementLoc' = blockPlacementLoc
        /\ (blockTargetLoc' /= blockTargetLoc
              \/ blockPlacementLoc' /= blockPlacementLoc) =>
             \E i \in 1 .. Len(calls') : calls'[i].fn = "setBlockTargets"
        /\ handler'.fn = "getTargetBlock" => result' = blockTargetLoc
        /\ handler'.fn = "getTargetBlockAdjacent" =>
             result' = blockPlacementLoc ]_vars

\* the targeted block was removed after the tick that cached it, and
\* getTargetBlock() still returns it
C14_Witness ==
    /\ handler.fn = "getTargetBlock"
    /\ result = Arr(<<5, 5, 9>>)
    /\ blockPlacementLoc = Arr(<<5, 5, 10>>)
    /\ blocks[<<5, 5, 9>>] = 0

\* the place of the step named fn among the steps of the last call, 0 when it
\* was not made
PlaceOf(fn) ==
    IF \E i \in 1 .. Len(calls) : calls[i].fn = fn
    THEN CHOOSE i \in 1 .. Len(calls) :
             calls[i].fn = fn /\ \A j \in 1 .. i - 1 : calls[j].fn /= fn
    ELSE 0

\* what pick() with no arguments computes from the player, the camera and
\* the world as they are now, cached the way setBlockTargets() caches it
FreshTargets ==
    cacheTargets(pick(blocks, getPlayerEyePosition(playerPos, playerHeight),
                      getCameraVector(cameraRot), blockTestDistance,
                      Undefined, Undefined, Undefined).ret)

(* C15: in each tick the cached targets are written once, after            *)
(* Physics.tick and before Entities.tick, so entity callbacks and 'tick'   *)
(* listeners of that tick find in them what pick() with no arguments       *)
(* computes from the player and camera as that tick's physics step left    *)
(* them, not as the tick before left them.                                 *)
C15_TargetsFresh ==
    Ticked =>
        /\ Len(CallsOf("setBlockTargets")) = 1
        /\ Len(CallsOf("pick")) = 1
        /\ Len(CallsOf("Rendering.highlightBlockFace")) = 1
        /\ PlaceOf("Physics.tick") < PlaceOf("setBlockTargets")
        /\ PlaceOf("setBlockTargets") < PlaceOf("pick")
        /\ PlaceOf("pick") < PlaceOf("Rendering.highlightBlockFace")
        /\ PlaceOf("Rendering.highlightBlockFace") < PlaceOf("Entities.tick")
        /\ PlaceOf("Entities.tick") < PlaceOf("emit")
        /\ blockTargetLoc = FreshTargets.target
        /\ blockPlacementLoc = FreshTargets.placement

\* a tick whose physics step left the player where nothing is targeted,
\* while a solid block stands where the other position looks
C15_Witness ==
    /\ Ticked
    /\ playerPos = <<0, 10 * Scale, 0>>
    /\ BlockSolid(blocks[<<5, 5, 9>>])
    /\ blockTargetLoc = Null
    /\ blockPlacementLoc = Null

-----------------------------------------------------------------------------
(* The configured block-test distance *)

\* the ray casts of the call that ends this step
RaysCast == SelectSeq(calls', LAMBDA c : c.fn = "raycast")

(* C16: pick() without a maximum distance, as the targeting update of a    *)
(* tick calls it, casts its ray no further than the block-test distance    *)
(* the engine was configured with, whatever that value is, and no further  *)
(* than 10 when none was configured; pick() is disabled by a maximum       *)
(* distance of exactly 0 and by nothing else.                              *)
C16_ConfiguredDistance ==
    [][ /\ ( /\ handler.fn = "Engine"
             /\ \/ handler'.fn = "tick"
                \/ handler'.fn = "pick" /\ handler'.args[3] = Undefined )
          => /\ Len(RaysCast) = 1
             /\ RaysCast[1].args[3] =
                  (IF handler.args[4] = Undefined THEN Num(10 * Scale)
                   ELSE handler.args[4])
        /\ handler'.fn = "pick" =>
             (RaysCast = <<>> <=> handler'.args[3] = Num(0)) ]_vars

-----------------------------------------------------------------------------
(* 'tick' listeners that fail *)

(* C17: a 'tick' listener that fails is contained: tick() still returns    *)
(* normally and every registered listener is notified, and every tick,     *)
(* the one after a failure included, makes its full sequence of steps      *)
(* with the same fixed step.                                               *)
C17_ListenerFailureContained ==
    Ticked =>
        /\ ~threw
        /\ Len(CallsOf("listener")) = Len(listeners)
        /\ StepsMade = TickSteps
        /\ \A i \in 1 .. Len(calls) :
               IsTickStep(calls[i]) /\ calls[i].fn /= "setBlockTargets"
                   => calls[i].args = <<tickRate>>

-----------------------------------------------------------------------------
(* Construction *)

Constructed == handler.fn = "Engine"

\* the calls that create the eight subsystems
Creations ==
    { "createContainer", "createInputs", "createRegistry", "createWorld",
      "createRendering", "createPhysics", "createControls",
      "createEntities" }

\* the constructor made step a, once, and not before step b
After(a, b) ==
    /\ Len(CallsOf(a)) = 1 /\ Len(CallsOf(b)) = 1
    /\ PlaceOf(b) < PlaceOf(a)

\* each subsystem is created once and not before those it depends on
DependencyOrder ==
    /\ \A c \in Creations : Len(CallsOf(c)) = 1
    /\ After("createInputs", "createContainer")
    /\ After("createWorld", "createRegistry")
    /\ After("createRendering", "createWorld")
    /\ After("createRendering", "createContainer")
    /\ After("createControls", "createInputs")
    /\ After("createControls", "createPhysics")
    /\ After("createControls", "createRendering")
    /\ After("createEntities", "createPhysics")
    /\ After("createEntities", "createRendering")

(* C18: construction creates each of Container, Inputs, Registry, World,   *)
(* Rendering, Physics, Controls and Entities once and none before one it   *)
(* depends on; the camera accessor is wired, the player spawned and        *)
(* Controls' target bound only after all eight exist.                      *)
C18_ConstructionOrder ==
    Constructed =>
        /\ DependencyOrder
        /\ \A c \in Creations :
               /\ After("Controls.setCameraAccessor", c)
               /\ After("Entities.add", c)
               /\ After("Controls.setTarget", c)

(* C18, amended: the same, except that the camera accessor is wired as     *)
(* soon as Controls and Rendering exist, before Entities is created; the   *)
(* player is spawned after all eight subsystems exist and Controls'        *)
(* target is bound after that.                                             *)
C18_ConstructionOrderAmended ==
    Constructed =>
        /\ DependencyOrder
        /\ After("Controls.setCameraAccessor", "createControls")
        /\ After("Controls.setCameraAccessor", "createRendering")
        /\ After("createEntities", "Controls.setCameraAccessor")
        /\ \A c \in Creations : After("Entities.add", c)
        /\ After("Controls.setTarget", "Entities.add")

\* the second engine of the page, just constructed
C18_Witness ==
    /\ Constructed
    /\ engineId = 2
    /\ Len(calls) = 11
    /\ PlaceOf("Controls.setCameraAccessor") = 8
    /\ PlaceOf("createEntities") = 9

\* the option an engine was constructed with, or the built-in default when
\* it was constructed without it
OwnOrBuiltin(own, builtin) == IF own = Undefined THEN builtin ELSE own

(* C19: an engine's resolved configuration depends on the options of its   *)
(* own construction and the built-in defaults only: constructed without    *)
(* tickRate, player start or auto-step it has 30, (0, 10, 0) and off,      *)
(* whatever engines were constructed before it, and its tick() steps by    *)
(* 30.                                                                     *)
C19_ConfigIndependent ==
    [][ /\ handler'.fn = "Engine" =>
             /\ tickRate' =
                  OwnOrBuiltin(handler'.args[1], BuiltinDefaults.tickRate)
             /\ Arr(playerPos') =
                  OwnOrBuiltin(handler'.args[2], BuiltinDefaults.playerStart)
             /\ playerAutoStep' =
                  OwnOrBuiltin(handler'.args[3],
                               BuiltinDefaults.playerAutoStep)
        /\ ( /\ Constructed /\ handler.args[1] = Undefined
             /\ handler'.fn = "tick" )
             => calls'[1].args = <<Num(30 * Scale)>> ]_vars

====
